---------------------------- MODULE Spec2Model ----------------------------
(***************************************************************************)
(* Model of src/app.py: the survey_responses table behind the Flask       *)
(* handlers upload_file, download_file, get_data, add_data, update_data   *)
(* and delete_data.                                                        *)
(*                                                                         *)
(* A handler talks to the table through separate statements, each of      *)
(* which the database commits on its own (TRUNCATE is DDL and commits     *)
(* implicitly; every DataFrame.to_sql call runs on an engine of its own,   *)
(* get_db_engine(), in a transaction of its own).  The model therefore    *)
(* has one action per statement of upload_file and one action for each    *)
(* of the single-statement handlers.  Requests are served on threads, so  *)
(* the statements of other requests run between the statements of an      *)
(* upload_file call.  The model runs one upload_file call at a time.       *)
(* A statement that executes without raising has taken effect in the      *)
(* table when the handler returns.                                         *)
(*                                                                         *)
(* Values.  A text value is a sequence of tokens; a token stands for a    *)
(* run of characters that holds no comma and no blank (an option label, a  *)
(* phone number), or is one of the characters "," and " ".  The empty      *)
(* string is << >>.  SQL NULL / pandas NaN / JSON null is the text         *)
(* NullValue, which no sample value contains.                              *)
(***************************************************************************)
EXTENDS Integers, Sequences, FiniteSets, TLC

\* ------------------------------------------------------------------ bounds
\* Largest id the table may hold (caps AUTO_INCREMENT and the row count).
MaxId == 3
\* Largest number of statements other requests run while one upload_file
\* call is between its own statements.
MaxOverlap == 1
\* Rows per insert batch.  The source uses 1000 (SourceBatchSize); the loads
\* of the model run with this scaled value so that a sheet of a few rows is
\* split into several batches.
batch_size == 2

\* batch_size as written in upload_file.
SourceBatchSize == 1000

\* ------------------------------------------------------------------ values
NullValue == <<"NULL">>
EmptyString == << >>

T(s) == <<s>>

isna(v) == v = NullValue
notna(v) == v # NullValue

\* Series.fillna(value)
fillna(v, value) == IF isna(v) THEN value ELSE v

\* upload_file: required_columns
required_columns ==
    {"Phone_Number", "EFD", "Job Category", "Employment Status", "Sex",
     "Status", "Q1", "Q2", "Q3"}

\* upload_file: the argument of df.rename(columns=...)
RenameMap ==
    ("Phone_Number" :> "phone_number") @@ ("EFD" :> "efd")
    @@ ("Job Category" :> "job_category")
    @@ ("Employment Status" :> "employment_status")
    @@ ("Sex" :> "sex") @@ ("Status" :> "status")
    @@ ("Q1" :> "q1") @@ ("Q2" :> "q2") @@ ("Q3" :> "q3")

\* upload_file: columns, the nine canonical fields in table order
columns ==
    <<"phone_number", "efd", "job_category", "employment_status", "sex",
      "status", "q1", "q2", "q3">>

Range(s) == {s[i] : i \in DOMAIN s}

ColumnSet == Range(columns)

\* The duplicate-group key: sort_values(by=...) and duplicated(subset=...)
KeyColumns == <<"phone_number", "efd", "job_category", "sex">>

\* get_data: q1_options
q1_options ==
    <<"1. SEAH awareness", "2. Disciplinary action", "5. SemaUsikike",
      "6. SEAH engagements", "7. Risk assessment", "8. MD Communications",
      "9. Visible welfare">>


\* ------------------------------------------------------------ sample data
\* Ascending order of the sample key tokens under Python's string order.
Collation == <<"2024-01", "555-0099", "555-0100", "555-0199", "Clinical", "F", "M">>

SeahAwareness == "1. SEAH awareness"
RiskAssessment == "7. Risk assessment"
\* A label of the questionnaire that q1_options does not list.
OtherLabel == "3. Reporting channels"

\* One data row of an uploaded sheet, keyed by the sheet's headers.
SheetRow(phone, sex, q1, q2, q3) ==
    ("Phone_Number" :> T(phone)) @@ ("EFD" :> T("2024-01"))
    @@ ("Job Category" :> T("Clinical"))
    @@ ("Employment Status" :> T("Permanent"))
    @@ ("Sex" :> T(sex)) @@ ("Status" :> T("Active"))
    @@ ("Q1" :> q1) @@ ("Q2" :> q2) @@ ("Q3" :> q3)

RowA ==
    SheetRow("555-0100", "F",
             <<SeahAwareness, ",", " ", RiskAssessment>>, T("yes"), NullValue)
RowB == SheetRow("555-0100", "M", NullValue, NullValue, NullValue)
RowC == SheetRow("555-0100", "F", <<OtherLabel>>, T("no"), T("ok"))
RowD ==
    SheetRow("555-0099", "M",
             <<SeahAwareness, ",", RiskAssessment>>, NullValue, T("ok"))

Without(row, header) == [h \in DOMAIN row \ {header} |-> row[h]]

\* The sheets a client may upload: pd.read_excel(file) gives the header set
\* and the data rows.  Sheets of 0 and 3 data rows, a sheet of 2 rows
\* with a column the handler does not know, and a sheet that lacks a
\* required column.
Files ==
    {[headers |-> required_columns, rows |-> << >>],
     [headers |-> required_columns, rows |-> <<RowA, RowB, RowC>>],
     [headers |-> required_columns \cup {"Comment"},
      rows |-> <<RowA @@ ("Comment" :> T("late")),
                 RowD @@ ("Comment" :> T("none"))>>],
     [headers |-> required_columns \ {"Q3"},
      rows |-> <<Without(RowA, "Q3")>>]}

\* request.json of add_data and update_data: a JSON object.  One names all
\* nine fields; the other names three of them and an id.
FullPayload ==
    [phone_number |-> T("555-0100"), efd |-> T("2024-01"),
     job_category |-> T("Clinical"), employment_status |-> T("Contract"),
     sex |-> T("F"), status |-> T("Active"),
     q1 |-> <<SeahAwareness, ",", " ", SeahAwareness>>,
     q2 |-> EmptyString, q3 |-> T("ok")]

PartialPayload ==
    ("id" :> 1)
    @@ [phone_number |-> T("555-0100"), sex |-> T("M"), q1 |-> EmptyString]

Payloads == {FullPayload, PartialPayload}

Ids == 1..MaxId

\* ------------------------------------------------------- pandas operations
Min(a, b) == IF a < b THEN a ELSE b

\* A key value's rank; sort_values puts NaN last (na_position='last').
Ord(v) ==
    IF isna(v) THEN Len(Collation) + 1
    ELSE CHOOSE i \in DOMAIN Collation : Collation[i] = v[1]

RECURSIVE KeyLessFrom(_, _, _)
KeyLessFrom(a, b, k) ==
    IF k > Len(KeyColumns) THEN FALSE
    ELSE LET c == KeyColumns[k]
         IN IF Ord(a[c]) # Ord(b[c]) THEN Ord(a[c]) < Ord(b[c])
            ELSE KeyLessFrom(a, b, k + 1)

\* a sorts strictly before b under by=[phone_number, efd, job_category, sex]
KeyLess(a, b) == KeyLessFrom(a, b, 1)

RECURSIVE InsertSorted(_, _)
InsertSorted(s, r) ==
    IF s = << >> THEN <<r>>
    ELSE IF KeyLess(r, s[1]) THEN <<r>> \o s
    ELSE <<s[1]>> \o InsertSorted(Tail(s), r)

\* Faulty variant of sort_values: the frame is left in sheet order.
sort_values_skipped(df) == df

\* df.sort_values(by=KeyColumns): ascending, rows of equal key in input order
RECURSIVE sort_values(_)
sort_values(df) ==
    IF df = << >> THEN << >>
    ELSE InsertSorted(sort_values(SubSeq(df, 1, Len(df) - 1)), df[Len(df)])

RenameColumn(h) == IF h \in DOMAIN RenameMap THEN RenameMap[h] ELSE h

\* df.rename(columns=RenameMap), on one row
rename(row) ==
    [c \in {RenameColumn(h) : h \in DOMAIN row} |->
        row[CHOOSE h \in DOMAIN row : RenameColumn(h) = c]]

\* df[columns], on one row
Project(row) == [c \in ColumnSet |-> row[c]]

\* range(lo, hi, step)
range(lo, hi, step) ==
    IF hi <= lo THEN << >>
    ELSE [k \in 1..((hi - lo + step - 1) \div step) |-> lo + (k - 1) * step]

\* df.iloc[lo:hi]
iloc(df, lo, hi) == SubSeq(df, lo + 1, Min(hi, Len(df)))

\* The rows upload_file stores, in order: rename, then sort_values.
Normalize(rows) == sort_values([i \in DOMAIN rows |-> rename(rows[i])])

KeyOf(row) == [k \in DOMAIN KeyColumns |-> row[KeyColumns[k]]]

\* df.duplicated(subset=KeyColumns, keep=False): one pass with a hash table
\* from key to the index that first held it; a key met again marks both the
\* current row and the first one.  `first` is the set of those first indexes.
RECURSIVE DuplicatedScan(_, _, _, _)
DuplicatedScan(df, i, first, out) ==
    IF i > Len(df) THEN out
    ELSE IF \E j \in first : KeyOf(df[j]) = KeyOf(df[i])
    THEN LET j == CHOOSE j \in first : KeyOf(df[j]) = KeyOf(df[i])
         IN DuplicatedScan(df, i + 1, first,
                           [out EXCEPT ![j] = TRUE, ![i] = TRUE])
    ELSE DuplicatedScan(df, i + 1, first \cup {i}, [out EXCEPT ![i] = FALSE])

\* Faulty variant of duplicated: keep='first', which leaves the first row of
\* a key unmarked.
duplicated_keep_first(df) ==
    [i \in DOMAIN df |-> \E j \in 1..(i - 1) : KeyOf(df[j]) = KeyOf(df[i])]

duplicated(df) == DuplicatedScan(df, 1, {}, [i \in DOMAIN df |-> FALSE])

\* str.split(', '): the items between the occurrences of comma-and-blank
RECURSIVE SplitScan(_, _, _, _)
SplitScan(text, i, item, items) ==
    IF i > Len(text) THEN Append(items, item)
    ELSE IF i < Len(text) /\ text[i] = "," /\ text[i + 1] = " "
    THEN SplitScan(text, i + 2, << >>, Append(items, item))
    ELSE SplitScan(text, i + 1, Append(item, text[i]), items)

split(text) == SplitScan(text, 1, << >>, << >>)

\* option in q1_options, for an item of a split text
IsOption(item) == Len(item) = 1 /\ item[1] \in Range(q1_options)

\* --------------------------------------------------------------- the table
\* The columns of survey_responses: the key the UPDATE and DELETE statements
\* select on, then the nine fields (the table's DDL is not part of the
\* source; SELECT * returns the columns in this order).
TableColumns == <<"id">> \o columns

TableColumnSet == Range(TableColumns)

IdsOf(table) == {r["id"] : r \in table}

\* The row an INSERT stores: a column the statement does not name is NULL.
StoredRow(row, id) ==
    [c \in TableColumnSet |->
        IF c = "id" THEN id
        ELSE IF c \in DOMAIN row THEN row[c] ELSE NullValue]

\* The id an INSERT gives a row: the value the statement names for the id
\* column, else the table's AUTO_INCREMENT counter.
RowId(row, auto) == IF "id" \in DOMAIN row THEN row["id"] ELSE auto

RECURSIVE InsertAll(_, _, _)
InsertAll(table, auto, rows) ==
    IF rows = << >> THEN [ok |-> TRUE, table |-> table, auto |-> auto]
    ELSE LET row == Head(rows)
             id == RowId(row, auto)
         IN IF id \in IdsOf(table) \/ ~(DOMAIN row \subseteq TableColumnSet)
            THEN [ok |-> FALSE, table |-> table, auto |-> auto]
            ELSE InsertAll(table \cup {StoredRow(row, id)},
                           IF id >= auto THEN id + 1 ELSE auto, Tail(rows))

\* DataFrame.to_sql(..., if_exists='append', index=False): one INSERT of all
\* rows of the frame in one transaction; a duplicate key or an unknown
\* column raises and leaves the table as it was.
to_sql(table, auto, rows) ==
    LET r == InsertAll(table, auto, rows)
    IN IF r.ok THEN r ELSE [ok |-> FALSE, table |-> table, auto |-> auto]

\* pd.read_sql('SELECT * FROM survey_responses'): the rows in primary-key
\* order.
RECURSIVE read_sql(_)
read_sql(table) ==
    IF table = {} THEN << >>
    ELSE LET r == CHOOSE x \in table : \A y \in table : x["id"] <= y["id"]
         IN <<r>> \o read_sql(table \ {r})

\* Faulty variant of Updated: the UPDATE without its WHERE clause.
UpdatedEveryRow(table, id, data) ==
    {[c \in TableColumnSet |->
         IF c = "id" THEN r["id"]
         ELSE IF c \in DOMAIN data THEN data[c] ELSE NullValue] : r \in table}

\* UPDATE survey_responses SET <nine fields> WHERE id=:id, with the
\* parameters data.get(field): None for a key the payload lacks.
Updated(table, id, data) ==
    {IF r["id"] = id
     THEN [c \in TableColumnSet |->
              IF c = "id" THEN r["id"]
              ELSE IF c \in DOMAIN data THEN data[c] ELSE NullValue]
     ELSE r : r \in table}

\* DELETE FROM survey_responses WHERE id=:id
Deleted(table, id) == {r \in table : r["id"] # id}

\* ------------------------------------------------------------ the handlers
\* download_file: the sheet written by to_excel(index=False) and set_row.
\* Sheet rows are numbered from 0; row 0 is the header.  iterrows() labels
\* the i-th row of the frame (i from 1) with the index value i - 1.
IndexLabel(i) == i - 1

\* Faulty variant of Highlighted: set_row(idx), one sheet row too high.
HighlightedAtLabel(rows) ==
    {IndexLabel(i) : i \in {j \in DOMAIN rows : rows[j]["is_duplicate"]}}

Highlighted(rows) ==
    {IndexLabel(i) + 1 : i \in {j \in DOMAIN rows : rows[j]["is_duplicate"]}}

Sheet(table) ==
    LET df == read_sql(table)
        flags == duplicated(df)
        rows == [i \in DOMAIN df |-> df[i] @@ ("is_duplicate" :> flags[i])]
    IN [header |-> TableColumns \o <<"is_duplicate">>,
        rows |-> rows,
        highlighted |-> Highlighted(rows)]

Column(df, c) == [i \in DOMAIN df |-> df[i][c]]

\* Series.dropna()
dropna(series) == SelectSeq(series, notna)

\* Faulty variant of CountOptions: an option counts once for a row however
\* often the row lists it.
CountOptionsOnce(items, counts) ==
    [o \in DOMAIN counts |->
        counts[o] + IF \E k \in DOMAIN items : items[k] = <<o>> THEN 1 ELSE 0]

RECURSIVE CountOptions(_, _)
CountOptions(items, counts) ==
    IF items = << >> THEN counts
    ELSE LET option == Head(items)
         IN CountOptions(Tail(items),
                         IF IsOption(option)
                         THEN [counts EXCEPT ![option[1]] = @ + 1]
                         ELSE counts)

\* get_data: the loop over df['q1'].dropna() that fills q1_counts
RECURSIVE CountQ1(_, _)
CountQ1(values, counts) ==
    IF values = << >> THEN counts
    ELSE CountQ1(Tail(values), CountOptions(split(Head(values)), counts))

q1_counts(df) ==
    CountQ1(dropna(Column(df, "q1")), [o \in Range(q1_options) |-> 0])

\* A quotient n / d of two lengths, kept as the pair; the literal 0 is 0 / 1.
Quotient(n, d) == [num |-> n, den |-> d]

\* len(df[df[c].notna()]) / total_respondents if total_respondents > 0 else 0
PresenceRatio(df, c) ==
    LET total_respondents == Len(df)
    IN IF total_respondents > 0
       THEN Quotient(Len(SelectSeq(Column(df, c), notna)), total_respondents)
       ELSE Quotient(0, 1)

FillColumn(df, c, value) == [i \in DOMAIN df |-> fillna(df[i][c], value)]

Statistics(table) ==
    LET df == read_sql(table)
    IN [q1_counts |-> q1_counts(df),
        q1_dist |-> [Q1 |-> PresenceRatio(df, "q1"),
                     Q2 |-> PresenceRatio(df, "q2"),
                     Q3 |-> PresenceRatio(df, "q3")],
        col2 |-> FillColumn(df, "job_category", T("Unknown")),
        col3 |-> FillColumn(df, "employment_status", T("Unknown")),
        col4 |-> FillColumn(df, "sex", T("Unknown")),
        col5 |-> FillColumn(df, "efd", T("Unknown")),
        q2 |-> FillColumn(df, "q2", T("N/A")),
        q3 |-> FillColumn(df, "q3", T("N/A"))]

\* ------------------------------------------------------------------ state
VARIABLES
    store,      \* the rows of survey_responses
    auto,       \* the table's AUTO_INCREMENT counter: the next id it gives
    up,         \* where the running upload_file call stands
    resp,       \* the response the last step returned, if it returned one
    ended,      \* the upload_file call the last step ended, if it ended one
    issued,     \* history: every id a row of the table has ever had
    overlaps    \* statements of other requests since the upload began

vars == <<store, auto, up, resp, ended, issued, overlaps>>

\* No upload_file call is running.
Idle ==
    [pc |-> "idle", pre |-> {}, rows |-> << >>, df |-> << >>,
     todo |-> << >>, batches |-> << >>]

NoResponse == [op |-> "none", status |-> 0]

Response(op, status) == [op |-> op, status |-> status]

NoLoad ==
    [op |-> "none", ok |-> FALSE, alone |-> TRUE, pre |-> {}, rows |-> << >>,
     df |-> << >>, batches |-> << >>]

\* The record of an upload_file call as it returns: the table when the call
\* started, the sheet's rows, the sorted frame and the batches it inserted,
\* and whether no other request ran a statement meanwhile.
Ended(ok, pre, rows, df, batches) ==
    [op |-> "upload", ok |-> ok, alone |-> overlaps = 0, pre |-> pre,
     rows |-> rows, df |-> df, batches |-> batches]

\* The table outlives the process: at start it is empty or holds what an
\* earlier upload left, here the rows of a sheet of two rows.
InitialTables ==
    {{}, to_sql({}, 1, [i \in 1..2 |-> Project(Normalize(<<RowC, RowD>>)[i])]).table}

Init ==
    /\ store \in InitialTables
    /\ auto = Cardinality(store) + 1
    /\ up = Idle
    /\ resp = NoResponse
    /\ ended = NoLoad
    /\ issued = IdsOf(store)
    /\ overlaps = 0

\* A statement of another request: while an upload is between its
\* statements it uses up one unit of MaxOverlap.
Other ==
    IF up.pc = "loading"
    THEN overlaps < MaxOverlap /\ overlaps' = overlaps + 1
    ELSE overlaps' = 0

\* upload_file without a file part: 400.
UploadNoFile ==
    /\ up.pc = "idle"
    /\ resp' = Response("upload", 400)
    /\ ended' = Ended(FALSE, store, << >>, << >>, << >>)
    /\ UNCHANGED <<store, auto, up, issued, overlaps>>

\* upload_file up to and including TRUNCATE TABLE: the header check, the
\* renaming and the sort touch no state.  TRUNCATE empties the table, resets
\* AUTO_INCREMENT and cannot be rolled back.  A sheet without data rows ends
\* the call here: range(0, 0, batch_size) is empty.
UploadBegin(file) ==
    /\ up.pc = "idle"
    /\ overlaps' = 0
    /\ IF ~(required_columns \subseteq file.headers)
       THEN /\ resp' = Response("upload", 400)
            /\ ended' = Ended(FALSE, store, file.rows, << >>, << >>)
            /\ UNCHANGED <<store, auto, up, issued>>
       ELSE LET df == Normalize(file.rows)
                todo == range(0, Len(df), batch_size)
            IN \/ /\ resp' = Response("upload", 500)
                  /\ ended' = Ended(FALSE, store, file.rows, df, << >>)
                  /\ UNCHANGED <<store, auto, up, issued>>
               \/ /\ store' = {}
                  /\ auto' = 1
                  /\ UNCHANGED issued
                  /\ IF todo = << >>
                     THEN /\ resp' = Response("upload", 200)
                          /\ ended' = Ended(TRUE, store, file.rows, df, << >>)
                          /\ UNCHANGED up
                     ELSE /\ resp' = NoResponse
                          /\ ended' = NoLoad
                          /\ up' = [pc |-> "loading", pre |-> store,
                                    rows |-> file.rows, df |-> df,
                                    todo |-> todo, batches |-> << >>]

\* One pass of the loop of upload_file: the next batch goes to the table in
\* a transaction of its own.  After the last batch the call returns 200; an
\* insert that raises ends the call with 500.
UploadBatch ==
    /\ up.pc = "loading"
    /\ LET start == Head(up.todo)
           slice == iloc(up.df, start, start + batch_size)
           batch == [i \in DOMAIN slice |-> Project(slice[i])]
           r == to_sql(store, auto, batch)
       IN \/ /\ resp' = Response("upload", 500)
             /\ ended' = Ended(FALSE, up.pre, up.rows, up.df, up.batches)
             /\ up' = Idle
             /\ overlaps' = 0
             /\ UNCHANGED <<store, auto, issued>>
          \/ /\ r.ok
             /\ r.auto <= MaxId + 1
             /\ store' = r.table
             /\ auto' = r.auto
             /\ issued' = issued \cup IdsOf(r.table)
             /\ IF Tail(up.todo) = << >>
                THEN /\ resp' = Response("upload", 200)
                     /\ ended' = Ended(TRUE, up.pre, up.rows, up.df,
                                       Append(up.batches, batch))
                     /\ up' = Idle
                     /\ overlaps' = 0
                ELSE /\ resp' = NoResponse
                     /\ ended' = NoLoad
                     /\ up' = [up EXCEPT !.todo = Tail(up.todo),
                                         !.batches = Append(up.batches, batch)]
                     /\ UNCHANGED overlaps

\* download_file
DownloadFile ==
    /\ Other
    /\ \/ resp' = [op |-> "download", status |-> 200, body |-> Sheet(store)]
       \/ resp' = Response("download", 500)
    /\ ended' = NoLoad
    /\ UNCHANGED <<store, auto, up, issued>>

\* get_data
GetData ==
    /\ Other
    /\ \/ resp' = [op |-> "get", status |-> 200, body |-> Statistics(store)]
       \/ resp' = Response("get", 500)
    /\ ended' = NoLoad
    /\ UNCHANGED <<store, auto, up, issued>>

\* add_data: pd.DataFrame([data]).to_sql(...) stores every key of the
\* payload as a column, the id among them.
AddData(data) ==
    /\ Other
    /\ LET r == to_sql(store, auto, <<data>>)
       IN \/ /\ r.ok
             /\ r.auto <= MaxId + 1
             /\ store' = r.table
             /\ auto' = r.auto
             /\ issued' = issued \cup IdsOf(r.table)
             /\ resp' = Response("add", 201)
          \/ /\ resp' = Response("add", 500)
             /\ UNCHANGED <<store, auto, issued>>
    /\ ended' = NoLoad
    /\ UNCHANGED up

\* update_data
UpdateData(id, data) ==
    /\ Other
    /\ \/ /\ store' = Updated(store, id, data)
          /\ resp' = Response("update", 200)
       \/ /\ resp' = Response("update", 500)
          /\ UNCHANGED store
    /\ ended' = NoLoad
    /\ UNCHANGED <<auto, up, issued>>

\* delete_data
DeleteData(id) ==
    /\ Other
    /\ \/ /\ store' = Deleted(store, id)
          /\ resp' = Response("delete", 200)
       \/ /\ resp' = Response("delete", 500)
          /\ UNCHANGED store
    /\ ended' = NoLoad
    /\ UNCHANGED <<auto, up, issued>>

Next ==
    \/ UploadNoFile
    \/ \E file \in Files : UploadBegin(file)
    \/ UploadBatch
    \/ DownloadFile
    \/ GetData
    \/ \E data \in Payloads : AddData(data)
    \/ \E id \in Ids, data \in Payloads : UpdateData(id, data)
    \/ \E id \in Ids : DeleteData(id)

Spec == Init /\ [][Next]_vars

\* ----------------------------------------------------------------- claims
\* The nine-field tuple of a stored row or of a row of a response.
Fields(r) == [c \in ColumnSet |-> r[c]]

\* The header under which a sheet carries a canonical field.
HeaderOf(c) == CHOOSE h \in required_columns : RenameMap[h] = c

\* The nine-field tuple of a data row of an uploaded sheet.
SheetFields(row) == [c \in ColumnSet |-> row[HeaderOf(c)]]

Occurrences(s, x) == Cardinality({i \in DOMAIN s : s[i] = x})

\* The two sequences hold the same elements the same number of times.
SameBag(s, t) ==
    \A x \in Range(s) \cup Range(t) : Occurrences(s, x) = Occurrences(t, x)

\* The nine-field tuples of a table, in key order.
TableFields(table) ==
    LET df == read_sql(table) IN [i \in DOMAIN df |-> Fields(df[i])]

SheetFieldsOf(rows) == [i \in DOMAIN rows |-> SheetFields(rows[i])]

RECURSIVE Flatten(_)
Flatten(ss) == IF ss = << >> THEN << >> ELSE Head(ss) \o Flatten(Tail(ss))

RECURSIVE Sum(_, _)
Sum(f, S) ==
    IF S = {} THEN 0
    ELSE LET x == CHOOSE x \in S : TRUE IN f[x] + Sum(f, S \ {x})

SameKey(a, b) == \A k \in DOMAIN KeyColumns : a[KeyColumns[k]] = b[KeyColumns[k]]

Downloaded == resp.op = "download" /\ resp.status = 200

Fetched == resp.op = "get" /\ resp.status = 200

\* C1: a reader that reads the table while a bulk load is in progress sees
\* either the complete dataset of before the load or the complete dataset of
\* the load, never an empty or partly loaded table.
C1_ReaderSeesWholeLoad ==
    /\ (up.pc = "loading" /\ Downloaded) =>
          LET seen == [i \in DOMAIN resp.body.rows |-> Fields(resp.body.rows[i])]
          IN \/ SameBag(seen, TableFields(up.pre))
             \/ SameBag(seen, [i \in DOMAIN up.df |-> Fields(up.df[i])])
    /\ (up.pc = "loading" /\ Fetched) =>
          Len(resp.body.col2) \in {Cardinality(up.pre), Len(up.df)}

\* C2: when an upload fails, for whatever cause, the table afterwards is the
\* table of before the upload, and the caller gets an error.
C2_FailedUploadLeavesStore ==
    (ended.op = "upload" /\ ~ended.ok) =>
        /\ store = ended.pre
        /\ resp.op = "upload" /\ resp.status \in {400, 500}

\* C3: when a valid upload returns success, the nine-field tuples of the
\* table are, as a multiset, those of the sheet's rows (so that no row of
\* before the upload remains).
C3_UploadReplacesStore ==
    (ended.op = "upload" /\ ended.ok) =>
        SameBag(TableFields(store), SheetFieldsOf(ended.rows))

\* The replacement does hold for a load during which no other request ran a
\* statement: ended.alone records that.
UploadReplacesStoreWhenAlone ==
    (ended.op = "upload" /\ ended.ok /\ ended.alone) =>
        SameBag(TableFields(store), SheetFieldsOf(ended.rows))

Ceil(n, d) == (n + d - 1) \div d

\* C4: a load of n rows issues ceil(n / batch_size) insert batches, each of
\* at most batch_size rows and all but the last of exactly batch_size; the
\* batches in issue order, end to end, are the sheet's rows sorted ascending
\* by (phone_number, efd, job_category, sex).  With the batch size of the
\* source, 2500 rows are cut at 0, 1000 and 2000 into 1000, 1000 and 500.
C4_BatchesCoverSortedInput ==
    (ended.op = "upload" /\ ended.ok) =>
        LET n == Len(ended.rows)
            b == ended.batches
            all == Flatten(b)
            big == [i \in 1..2500 |-> i]
            cuts == range(0, Len(big), SourceBatchSize)
        IN /\ Len(b) = Ceil(n, batch_size)
           /\ \A k \in DOMAIN b :
                 /\ Len(b[k]) <= batch_size
                 /\ k < Len(b) => Len(b[k]) = batch_size
           /\ SameBag(all, SheetFieldsOf(ended.rows))
           /\ \A i, j \in DOMAIN all : i < j => ~KeyLess(all[j], all[i])
           /\ cuts = <<0, 1000, 2000>>
           /\ [k \in DOMAIN cuts |->
                  Len(iloc(big, cuts[k], cuts[k] + SourceBatchSize))]
              = <<1000, 1000, 500>>

\* A load that ended in two batches whose rows the sort had to reorder.
C4_Witness ==
    /\ ended.op = "upload" /\ ended.ok
    /\ Len(ended.batches) = 2
    /\ Flatten(ended.batches) # SheetFieldsOf(ended.rows)

Reverse(s) == [i \in DOMAIN s |-> s[Len(s) + 1 - i]]

\* C5: in a download, a row is flagged is_duplicate exactly when another
\* row (another id) has the same (phone_number, efd, job_category, sex); the
\* flags do not depend on the order of the rows.
C5_DuplicateIffSharedKey ==
    Downloaded =>
        LET rows == resp.body.rows
            df == read_sql(store)
        IN /\ \A i \in DOMAIN rows :
                 rows[i]["is_duplicate"] <=>
                    \E j \in DOMAIN rows :
                        rows[j]["id"] # rows[i]["id"] /\ SameKey(rows[i], rows[j])
           /\ duplicated(Reverse(df)) = Reverse(duplicated(df))

\* A download of three rows or more, two of one key and one of another.
C5_Witness ==
    /\ Downloaded
    /\ Len(resp.body.rows) >= 3
    /\ \E i, j \in DOMAIN resp.body.rows :
          resp.body.rows[i]["is_duplicate"] /\ ~resp.body.rows[j]["is_duplicate"]

Q1Of(df, i) == df[i]["q1"]

\* The row's q1, split on comma-and-blank, holds the option label.
Lists(df, i, option) ==
    notna(Q1Of(df, i)) /\ \E k \in DOMAIN split(Q1Of(df, i)) :
                              split(Q1Of(df, i))[k] = <<option>>

OptionSet == Range(q1_options)

C7_PresenceCountsNonEmpty ==
    Fetched =>
        LET df == read_sql(store)
            n == Len(df)
            present(c) ==
                Cardinality({i \in DOMAIN df :
                    notna(df[i][c]) /\ df[i][c] # EmptyString})
            ratio(q, c) ==
                /\ resp.body.q1_dist[q].num >= 0
                /\ resp.body.q1_dist[q].num <= resp.body.q1_dist[q].den
                /\ resp.body.q1_dist[q] =
                      IF n = 0 THEN Quotient(0, 1) ELSE Quotient(present(c), n)
        IN /\ ratio("Q1", "q1") /\ ratio("Q2", "q2") /\ ratio("Q3", "q3")
           /\ n = 0 => \A o \in OptionSet : resp.body.q1_counts[o] = 0

\* What update_data(id, data) leaves behind when it reports success.
UpdatePost(id, data) ==
    /\ \A r \in store : r["id"] # id => r \in store'
    /\ \A r \in store :
          r["id"] = id =>
             \E n \in store' :
                /\ n["id"] = id
                /\ \A c \in ColumnSet :
                      n[c] = IF c \in DOMAIN data THEN data[c] ELSE NullValue
    /\ IdsOf(store') = IdsOf(store)
    /\ Cardinality(store') = Cardinality(store)
    /\ id \notin IdsOf(store) => store' = store

\* What delete_data(id) leaves behind when it reports success.
DeletePost(id) ==
    /\ \A r \in store : r["id"] # id => r \in store'
    /\ \A n \in store' : n \in store /\ n["id"] # id
    /\ id \notin IdsOf(store) => store' = store

C9_IdsNeverReused ==
    [][LET new == IdsOf(store') \ IdsOf(store)
       IN /\ \A i \in new : i \notin issued /\ \A j \in issued : j < i
          /\ \A data \in Payloads :
                (AddData(data) /\ "id" \in DOMAIN data) => data["id"] \notin new]_vars

\* The rows of a download are the rows of the table in key order, and the
\* highlighted sheet rows are those of the flagged rows: to_excel writes the
\* header to sheet row 0 and the i-th data row to sheet row i.
DownloadRowsAndHighlights ==
    LET rows == resp.body.rows
    IN /\ Len(rows) = Cardinality(store)
       /\ \A i \in DOMAIN rows : [c \in TableColumnSet |-> rows[i][c]] \in store
       /\ \A i, j \in DOMAIN rows : i < j => rows[i]["id"] < rows[j]["id"]
       /\ \A i \in DOMAIN rows : DOMAIN rows[i] = Range(resp.body.header)
       /\ resp.body.highlighted = {i \in DOMAIN rows : rows[i]["is_duplicate"]}

\* C10, as claimed: a download has one data row per stored row in the
\* table's order, its columns are the nine canonical fields followed by
\* is_duplicate, and the highlighted rows are exactly the flagged rows.
C10_DownloadHasNineColumns ==
    Downloaded =>
        /\ resp.body.header = columns \o <<"is_duplicate">>
        /\ DownloadRowsAndHighlights

\* C10, amended: a download has one data row per stored row in the table's
\* order, its columns are all the columns of the table (id, then the nine
\* canonical fields) followed by is_duplicate, and the highlighted rows are
\* exactly the flagged rows.
C10_DownloadHasTableColumns ==
    Downloaded =>
        /\ resp.body.header = TableColumns \o <<"is_duplicate">>
        /\ DownloadRowsAndHighlights

\* A download whose first row is not flagged and whose later rows are.
C10_Witness ==
    /\ Downloaded
    /\ Len(resp.body.rows) >= 3
    /\ ~resp.body.rows[1]["is_duplicate"]
    /\ resp.body.highlighted # {}

=============================================================================
